---- MODULE Spec2Model ----
(***************************************************************************)
(* Model of the function analyser (analizador.py, main.py, graficos.py).   *)
(* Texts are sequences of one-character strings.  Expressions are trees in *)
(* the form the computer-algebra library keeps them (Add, Mul, Pow with a  *)
(* rational exponent, log, symbols, rationals).  Numeric values are exact  *)
(* rationals; irrational ones are cut to a multiple of 1/ApproxDen.        *)
(***************************************************************************)
EXTENDS Integers, Sequences, FiniteSets, TLC

\* the window of main.py: its two entries, the analysed function and its text,
\* the report, the plot, the dialogs shown, the routines the last analysis
\* invoked and the calls of the library that failed in it
VARIABLES entry_funcion, entry_x, funcion_actual, expresion_original,
          text_analisis, canvas_frame, messagebox, calls, faults

RECURSIVE Call(_, _)

(***************************************************************************)
(* Texts                                                                   *)
(***************************************************************************)
Digits == {"0", "1", "2", "3", "4", "5", "6", "7", "8", "9"}

Letters == {"a", "b", "c", "d", "e", "f", "g", "h", "i", "j", "k", "l", "m", "n", "o", "p", "q",
            "r", "s", "t", "u", "v", "w", "x", "y", "z", "A", "I"}

\* s[i..j], empty when j < i
Slice(s, i, j) == IF j < i THEN <<>> ELSE SubSeq(s, i, j)

\* does pat occur in s at position i
MatchAt(s, pat, i) ==
    /\ i + Len(pat) - 1 <= Len(s)
    /\ \A k \in 1..Len(pat) : s[i + k - 1] = pat[k]

RECURSIVE ReplaceFrom(_, _, _, _)
ReplaceFrom(s, old, new, i) ==
    IF i > Len(s) THEN <<>>
    ELSE IF MatchAt(s, old, i)
         THEN new \o ReplaceFrom(s, old, new, i + Len(old))
         ELSE <<s[i]>> \o ReplaceFrom(s, old, new, i + 1)

\* str.replace(old, new): every non-overlapping occurrence, left to right
Replace(s, old, new) == ReplaceFrom(s, old, new, 1)

RECURSIVE InsertStarFrom(_, _, _, _)
InsertStarFrom(s, left, right, i) ==
    IF i > Len(s) THEN <<>>
    ELSE IF i < Len(s) /\ s[i] \in left /\ s[i + 1] \in right
         THEN <<s[i], "*">> \o InsertStarFrom(s, left, right, i + 1)
         ELSE <<s[i]>> \o InsertStarFrom(s, left, right, i + 1)

\* re.sub(r'(L)(R)', r'\1*\2', s) for two disjoint one-character classes
ReSubStar(s, left, right) == InsertStarFrom(s, left, right, 1)

RECURSIVE LStrip(_)
LStrip(s) == IF s # <<>> /\ Head(s) = " " THEN LStrip(Tail(s)) ELSE s

RECURSIVE RStrip(_)
RStrip(s) == IF s # <<>> /\ s[Len(s)] = " " THEN RStrip(Slice(s, 1, Len(s) - 1)) ELSE s

\* str.strip()
Strip(s) == RStrip(LStrip(s))

limpiar_expresion(expresion) ==
    LET e1  == Replace(expresion, <<"^">>, <<"*", "*">>)
        e2  == Replace(e1, <<"l", "n">>, <<"l", "o", "g">>)
        e3  == Replace(e2, <<"s", "e", "n">>, <<"s", "i", "n">>)
        e4  == Replace(e3, <<"t", "g">>, <<"t", "a", "n">>)
        e5  == Replace(e4, <<"c", "t", "g">>, <<"c", "o", "t">>)
        e6  == Replace(e5, <<"s", "e", "c">>, <<"s", "e", "c">>)
        e7  == Replace(e6, <<"c", "s", "c">>, <<"c", "s", "c">>)
        e8  == Replace(e7, <<"a", "r", "c", "s", "i", "n">>, <<"a", "s", "i", "n">>)
        e9  == Replace(e8, <<"a", "r", "c", "c", "o", "s">>, <<"a", "c", "o", "s">>)
        e10 == Replace(e9, <<"a", "r", "c", "t", "a", "n">>, <<"a", "t", "a", "n">>)
        e11 == Replace(e10, <<"s", "q", "r", "t">>, <<"s", "q", "r", "t">>)
        e12 == Replace(e11, <<"a", "b", "s">>, <<"A", "b", "s">>)
        r1  == ReSubStar(e12, Digits, Letters \cup {"("})
        r2  == ReSubStar(r1, Letters \cup {")"}, Digits)
        r3  == ReSubStar(r2, {")"}, {"("})
        r4  == ReSubStar(r3, Digits, {"("})
        r5  == ReSubStar(r4, {")"}, Letters)
    IN  r5

(***************************************************************************)
(* Expressions: the trees of the computer-algebra library                  *)
(***************************************************************************)
Abs(n) == IF n < 0 THEN -n ELSE n

RECURSIVE GCD(_, _)
GCD(a, b) == IF b = 0 THEN a ELSE GCD(b, a % b)

Node(k, a, p, q, s) == [k |-> k, a |-> a, p |-> p, q |-> q, s |-> s]

\* Rational(p, q) in lowest terms with a positive denominator
Num(p, q) ==
    LET g  == GCD(Abs(p), Abs(q))
        sg == IF q < 0 THEN -1 ELSE 1
    IN  Node("num", <<>>, (sg * p) \div g, (sg * q) \div g, "")

IntNum(n) == Num(n, 1)
Sym(s) == Node("sym", <<>>, 0, 1, s)
ZOO == Node("zoo", <<>>, 0, 1, "")      \* complex infinity
NAN == Node("nan", <<>>, 0, 1, "")
IMAG == Node("imag", <<>>, 0, 1, "")    \* a number with a non-zero imaginary part
BIG(sg) == Node("big", <<>>, sg, 1, "") \* a rational of sign sg beyond the range of the floats
RawAdd(l, r) == Node("add", <<l, r>>, 0, 1, "")
RawMul(l, r) == Node("mul", <<l, r>>, 0, 1, "")
RawPow(b, e) == Node("pow", <<b, e>>, 0, 1, "")
RawLog(u) == Node("log", <<u>>, 0, 1, "")
Fn(name, u) == Node("fn", <<u>>, 0, 1, name)   \* an undefined function applied to u

IsNum(t) == t.k = "num"
IsZero(t) == IsNum(t) /\ t.p = 0

\* n is the square of a natural number
IsSquare(n) == n >= 0 /\ \E r \in 0..n : r * r = n
ISqrt(n) == CHOOSE r \in 0..n : r * r = n

RECURSIVE IntPow(_, _)
IntPow(b, n) == IF n = 0 THEN 1 ELSE b * IntPow(b, n - 1)

\* the largest power of ten that a float holds (sys.float_info.max_10_exp)
FloatMaxExp10 == 308

\* expr.free_symbols
RECURSIVE FreeSymbols(_)
FreeSymbols(t) ==
    CASE t.k = "sym" -> {t.s}
      [] t.k \in {"add", "mul"} -> FreeSymbols(t.a[1]) \cup FreeSymbols(t.a[2])
      [] t.k \in {"pow", "log", "fn"} -> FreeSymbols(t.a[1])
      [] OTHER -> {}

\* expr.find(kind): the set of sub-terms of the given kind
RECURSIVE Find(_, _)
Find(t, kind) ==
    (IF t.k = kind THEN {t} ELSE {}) \cup
    (CASE t.k \in {"add", "mul"} -> Find(t.a[1], kind) \cup Find(t.a[2], kind)
       [] t.k \in {"pow", "log", "fn"} -> Find(t.a[1], kind)
       [] OTHER -> {})

\* a constant: no free symbol and no undefined function
IsConst(t) == FreeSymbols(t) = {} /\ Find(t, "fn") = {}

\* Add(l, r) as the library builds it: numbers are combined at once
MkAdd(l, r) ==
    IF l.k = "nan" \/ r.k = "nan" THEN NAN
    ELSE IF l.k = "zoo" /\ r.k = "zoo" THEN NAN
    ELSE IF l.k = "zoo" \/ r.k = "zoo" THEN
        IF IsConst(l) /\ IsConst(r) THEN ZOO ELSE RawAdd(l, r)
    ELSE IF l.k = "big" /\ IsNum(r) THEN l
    ELSE IF r.k = "big" /\ IsNum(l) THEN r
    ELSE IF IsNum(l) /\ IsNum(r) THEN Num(l.p * r.q + r.p * l.q, l.q * r.q)
    ELSE IF IsZero(l) THEN r
    ELSE IF IsZero(r) THEN l
    ELSE IF (l.k = "imag" /\ (IsNum(r) \/ r.k = "imag")) \/ (r.k = "imag" /\ IsNum(l)) THEN IMAG
    ELSE RawAdd(l, r)

\* Mul(l, r) as the library builds it
MkMul(l, r) ==
    IF l.k = "nan" \/ r.k = "nan" THEN NAN
    ELSE IF (l.k = "zoo" /\ IsZero(r)) \/ (r.k = "zoo" /\ IsZero(l)) THEN NAN
    ELSE IF l.k = "zoo" \/ r.k = "zoo" THEN
        IF IsConst(l) /\ IsConst(r) THEN ZOO ELSE RawMul(l, r)
    ELSE IF l.k = "big" /\ IsNum(r) /\ r.p # 0 THEN BIG(IF r.p < 0 THEN -l.p ELSE l.p)
    ELSE IF r.k = "big" /\ IsNum(l) /\ l.p # 0 THEN BIG(IF l.p < 0 THEN -r.p ELSE r.p)
    ELSE IF IsNum(l) /\ IsNum(r) THEN Num(l.p * r.p, l.q * r.q)
    ELSE IF IsZero(l) \/ IsZero(r) THEN IntNum(0)
    ELSE IF l = IntNum(1) THEN r
    ELSE IF r = IntNum(1) THEN l
    ELSE IF (l.k = "imag" /\ (IsNum(r) \/ r.k = "imag")) \/ (r.k = "imag" /\ IsNum(l)) THEN IMAG
    ELSE RawMul(l, r)

\* Pow(b, e) as the library builds it; e is a rational number
MkPow(b, e) ==
    IF b.k = "nan" THEN NAN
    ELSE IF e.p = 0 THEN IntNum(1)
    ELSE IF e = IntNum(1) THEN b
    ELSE IF b.k = "zoo" THEN (IF e.p > 0 THEN ZOO ELSE IntNum(0))
    ELSE IF b.k = "imag" THEN IMAG
    ELSE IF IsNum(b) THEN
        IF b.p = 0 THEN (IF e.p > 0 THEN IntNum(0) ELSE ZOO)
        ELSE IF e.q = 1 /\ e.p > FloatMaxExp10 /\ b.q = 1 /\ Abs(b.p) >= 10
             THEN BIG(IF b.p < 0 /\ e.p % 2 = 1 THEN -1 ELSE 1)
        ELSE IF e.q = 1 THEN
            (IF e.p > 0 THEN Num(IntPow(b.p, e.p), IntPow(b.q, e.p))
                        ELSE Num(IntPow(b.q, -e.p), IntPow(b.p, -e.p)))
        ELSE IF e.q = 2 /\ b.p < 0 THEN IMAG
        ELSE IF e.q = 2 /\ IsSquare(b.p) /\ IsSquare(b.q) THEN
            (IF e.p > 0 THEN Num(IntPow(ISqrt(b.p), e.p), IntPow(ISqrt(b.q), e.p))
                        ELSE Num(IntPow(ISqrt(b.q), -e.p), IntPow(ISqrt(b.p), -e.p)))
        ELSE RawPow(b, e)
    ELSE RawPow(b, e)

\* log(u) as the library builds it
MkLog(u) ==
    IF u.k = "nan" THEN NAN
    ELSE IF u.k = "zoo" THEN ZOO
    ELSE IF u.k = "imag" THEN IMAG
    ELSE IF IsNum(u) THEN
        IF u.p = 0 THEN ZOO
        ELSE IF u.p < 0 THEN IMAG
        ELSE IF u = IntNum(1) THEN IntNum(0)
        ELSE RawLog(u)
    ELSE RawLog(u)

\* expr.subs(sym, val): the tree is rebuilt bottom-up through the constructors
RECURSIVE Subs(_, _, _)
Subs(t, sym, val) ==
    CASE t.k = "sym" -> IF t.s = sym THEN val ELSE t
      [] t.k = "add" -> Call("MkAdd", <<Call("Subs", <<t.a[1], sym, val>>), Call("Subs", <<t.a[2], sym, val>>)>>)
      [] t.k = "mul" -> Call("MkMul", <<Call("Subs", <<t.a[1], sym, val>>), Call("Subs", <<t.a[2], sym, val>>)>>)
      [] t.k = "pow" -> Call("MkPow", <<Call("Subs", <<t.a[1], sym, val>>), t.a[2]>>)
      [] t.k = "log" -> Call("MkLog", <<Call("Subs", <<t.a[1], sym, val>>)>>)
      [] t.k = "fn"  -> Fn(t.s, Call("Subs", <<t.a[1], sym, val>>))
      [] OTHER -> t

(***************************************************************************)
(* Numeric values: what sp.N and float() produce                           *)
(***************************************************************************)
None == <<>>
Some(v) == <<v>>

\* denominator of the decimal approximations of irrational numbers
ApproxDen == IntPow(10, 5)

\* log(n) and sqrt(n), truncated to 1/ApproxDen, for the integers of the model
LnTable == [n \in 1..10 |->
    CASE n = 1 -> 0 [] n = 2 -> 69314 [] n = 3 -> 109861 [] n = 4 -> 138629
      [] n = 5 -> 160943 [] n = 6 -> 179175 [] n = 7 -> 194591 [] n = 8 -> 207944
      [] n = 9 -> 219722 [] n = 10 -> 230258]

SqrtTable == [n \in 1..10 |->
    CASE n = 1 -> 100000 [] n = 2 -> 141421 [] n = 3 -> 173205 [] n = 4 -> 200000
      [] n = 5 -> 223606 [] n = 6 -> 244948 [] n = 7 -> 264575 [] n = 8 -> 282842
      [] n = 9 -> 300000 [] n = 10 -> 316227]

\* a numeric value: k is "real" (the rational p/q), "huge" (a real of sign p
\* beyond the range of the floats), "complex", "zoo", "nan", or "sym" (not a
\* number: free symbols or an undefined function remain)
Val(k, p, q) == [k |-> k, p |-> p, q |-> q]
Real(p, q) == LET n == Num(p, q) IN Val("real", n.p, n.q)
NonReal(k) == Val(k, 0, 1)

VCombine(l, r, res) ==
    IF l.k = "sym" \/ r.k = "sym" THEN NonReal("sym")
    ELSE IF l.k # "real" THEN l
    ELSE IF r.k # "real" THEN r
    ELSE res

VAdd(l, r) == VCombine(l, r, Real(l.p * r.q + r.p * l.q, l.q * r.q))
VMul(l, r) == VCombine(l, r, Real(l.p * r.p, l.q * r.q))

\* v ** n for an integer n
VIntPow(v, n) ==
    IF v.k # "real" THEN v
    ELSE IF n >= 0 THEN Real(IntPow(v.p, n), IntPow(v.q, n))
    ELSE IF v.p = 0 THEN NonReal("zoo")
    ELSE Real(IntPow(v.q, -n), IntPow(v.p, -n))

VSqrt(v) ==
    IF v.k # "real" THEN v
    ELSE IF v.p < 0 THEN NonReal("complex")
    ELSE IF v.p = 0 THEN v
    ELSE IF IsSquare(v.p) /\ IsSquare(v.q) THEN Real(ISqrt(v.p), ISqrt(v.q))
    ELSE Real(SqrtTable[v.p * v.q], ApproxDen * v.q)

VLog(v) ==
    IF v.k # "real" THEN v
    ELSE IF v.p < 0 THEN NonReal("complex")
    ELSE IF v.p = 0 THEN NonReal("zoo")
    ELSE Real(LnTable[v.p] - LnTable[v.q], ApproxDen)

\* sp.N(expr, digits): numeric evaluation of a tree
RECURSIVE N(_)
N(t) ==
    CASE t.k = "num"  -> Real(t.p, t.q)
      [] t.k = "zoo"  -> NonReal("zoo")
      [] t.k = "nan"  -> NonReal("nan")
      [] t.k = "imag" -> NonReal("complex")
      [] t.k = "big"  -> Val("huge", t.p, 1)
      [] t.k = "add"  -> Call("VAdd", <<Call("N", <<t.a[1]>>), Call("N", <<t.a[2]>>)>>)
      [] t.k = "mul"  -> Call("VMul", <<Call("N", <<t.a[1]>>), Call("N", <<t.a[2]>>)>>)
      [] t.k = "pow"  -> IF t.a[2].q = 1 THEN Call("VIntPow", <<Call("N", <<t.a[1]>>), t.a[2].p>>)
                         ELSE Call("VIntPow", <<Call("VSqrt", <<Call("N", <<t.a[1]>>)>>), t.a[2].p>>)
      [] t.k = "log"  -> Call("VLog", <<Call("N", <<t.a[1]>>)>>)
      [] OTHER -> NonReal("sym")

\* the three-valued is_real of a numeric value: "T", "F" or "None"
is_real(v) ==
    CASE v.k \in {"real", "huge"} -> "T"
      [] v.k \in {"complex", "zoo"} -> "F"
      [] OTHER -> "None"

\* float(num) raises TypeError on a value that is not a number
FloatRaises(v) == v.k \in {"sym", "complex", "zoo"}

\* math.isfinite(float(num)): a value beyond the range converts to inf
IsFinite(v) == v.k = "real"

\* round(f, decimals): nearest multiple of 10^-decimals, ties to even
Round(v, decimals) ==
    LET D    == IntPow(10, decimals)
        ip   == v.p \div v.q
        a    == (v.p - ip * v.q) * D
        qd   == a \div v.q
        r    == a % v.q
        up   == (2 * r > v.q) \/ (2 * r = v.q /\ qd % 2 = 1)
    IN  Real(ip * D + qd + (IF up THEN 1 ELSE 0), D)

\* _to_safe_float without the math.isfinite test
_to_safe_float_sin_isfinite(sym_val, decimals) ==
    LET num == Call("N", <<sym_val>>) IN
    IF is_real(num) = "F" THEN [val |-> None, err |-> Some("El valor es complejo")]
    ELSE IF FloatRaises(num) THEN [val |-> None, err |-> Some("No se pudo convertir a float")]
    ELSE IF ~IsFinite(num) THEN [val |-> Some(num), err |-> None]
    ELSE [val |-> Some(Call("Round", <<num, decimals>>)), err |-> None]

_to_safe_float(sym_val, decimals) ==
    LET num == Call("N", <<sym_val>>) IN
    IF is_real(num) = "F" THEN [val |-> None, err |-> Some("El valor es complejo")]
    ELSE IF FloatRaises(num) THEN [val |-> None, err |-> Some("No se pudo convertir a float")]
    ELSE IF ~IsFinite(num) THEN [val |-> None, err |-> Some("El valor no es finito")]
    ELSE [val |-> Some(Call("Round", <<num, decimals>>)), err |-> None]

(***************************************************************************)
(* Restrictions: relational objects                                        *)
(***************************************************************************)
Rel(op, lhs, rhs) == [op |-> op, lhs |-> lhs, rhs |-> rhs]
BooleanTrue == Rel("true", IntNum(0), IntNum(0))
BooleanFalse == Rel("false", IntNum(0), IntNum(0))
RelRaise == Rel("raise", IntNum(0), IntNum(0))

\* l < r for two real values
VLess(l, r) ==
    CASE l.k = "huge" /\ r.k = "huge" -> l.p < r.p
      [] l.k = "huge" -> l.p < 0
      [] r.k = "huge" -> r.p > 0
      [] OTHER -> l.p * r.q < r.p * l.q

Compare(op, l, r) ==
    CASE op = "!=" -> l # r
      [] op = ">"  -> VLess(r, l)
      [] op = ">=" -> ~VLess(l, r)
      [] op = "<"  -> VLess(l, r)
      [] op = "<=" -> ~VLess(r, l)
      [] op = "==" -> l = r

\* sp.Ne / sp.Gt / sp.Ge: a relation between two numbers is evaluated at once
\* to a Boolean constant; comparing a non-real number raises TypeError
MkRel(op, lhs, rhs) ==
    IF ~(IsConst(lhs) /\ IsConst(rhs)) THEN Rel(op, lhs, rhs)
    ELSE LET l == Call("N", <<lhs>>)
             r == Call("N", <<rhs>>)
         IN  IF is_real(l) = "T" /\ is_real(r) = "T"
             THEN (IF Compare(op, l, r) THEN BooleanTrue ELSE BooleanFalse)
             ELSE IF op = "!=" THEN (IF lhs # rhs THEN BooleanTrue ELSE BooleanFalse)
             ELSE RelRaise

IsRelational(rel) == rel.op \in {"==", "!=", ">", ">=", "<", "<="}

\* _eval_relational counting a restriction whose evaluation raises as satisfied
_eval_relational_error_cumple(rel, val_x) ==
    IF ~IsRelational(rel)
    THEN [holds |-> TRUE, err |-> None]
    ELSE LET lhs_n == Call("N", <<Call("Subs", <<rel.lhs, "x", val_x>>)>>)
             rhs_n == Call("N", <<Call("Subs", <<rel.rhs, "x", val_x>>)>>)
         IN  IF ~(is_real(lhs_n) = "T" /\ is_real(rhs_n) = "T")
             THEN [holds |-> FALSE, err |-> Some("Valor complejo o indefinido en la restriccion")]
             ELSE [holds |-> Compare(rel.op, lhs_n, rhs_n), err |-> None]

_eval_relational(rel, val_x) ==
    IF ~IsRelational(rel)
    THEN [holds |-> FALSE, err |-> Some("object has no attribute 'lhs'")]
    ELSE LET lhs_n == Call("N", <<Call("Subs", <<rel.lhs, "x", val_x>>)>>)
             rhs_n == Call("N", <<Call("Subs", <<rel.rhs, "x", val_x>>)>>)
         IN  IF ~(is_real(lhs_n) = "T" /\ is_real(rhs_n) = "T")
             THEN [holds |-> FALSE, err |-> Some("Valor complejo o indefinido en la restriccion")]
             ELSE [holds |-> Compare(rel.op, lhs_n, rhs_n), err |-> None]

\* the description of one violated restriction: str(r), and the error if any
Violation(r, res) == [restr |-> r, err |-> res.err]

RECURSIVE violation_msgs(_, _)
violation_msgs(restricciones, val_x) ==
    IF restricciones = <<>> THEN <<>>
    ELSE LET r   == Head(restricciones)
             res == Call("_eval_relational", <<r, val_x>>)
         IN  (IF ~res.holds THEN <<Violation(r, res)>> ELSE <<>>)
             \o Call("violation_msgs", <<Tail(restricciones), val_x>>)

check_dominio_punto(val_x, restricciones) ==
    IF restricciones = <<>> THEN [in_domain |-> TRUE, msg |-> None]
    ELSE LET msgs == Call("violation_msgs", <<restricciones, val_x>>) IN
         IF msgs # <<>> THEN [in_domain |-> FALSE, msg |-> Some(msgs)]
         ELSE [in_domain |-> TRUE, msg |-> None]

(***************************************************************************)
(* Structural operations of the computer-algebra library                   *)
(***************************************************************************)
X == Sym("x")
Half == Num(1, 2)
Neg(t) == Call("MkMul", <<IntNum(-1), t>>)

\* sp.simplify on the expressions of the model: the numeric sub-terms are
\* evaluated and the tree is rebuilt in the library's form
RECURSIVE simplify(_)
simplify(t) ==
    CASE t.k = "add" -> Call("MkAdd", <<Call("simplify", <<t.a[1]>>), Call("simplify", <<t.a[2]>>)>>)
      [] t.k = "mul" -> Call("MkMul", <<Call("simplify", <<t.a[1]>>), Call("simplify", <<t.a[2]>>)>>)
      [] t.k = "pow" -> Call("MkPow", <<Call("simplify", <<t.a[1]>>), t.a[2]>>)
      [] t.k = "log" -> Call("MkLog", <<Call("simplify", <<t.a[1]>>)>>)
      [] t.k = "fn"  -> Fn(t.s, Call("simplify", <<t.a[1]>>))
      [] OTHER -> t

\* sp.together(expr).as_numer_denom(): <<numerator, denominator>>
RECURSIVE as_numer_denom(_)
as_numer_denom(t) ==
    CASE t.k = "num" -> <<IntNum(t.p), IntNum(t.q)>>
      [] t.k = "pow" /\ t.a[2].p < 0 -> <<IntNum(1), Call("MkPow", <<t.a[1], Num(-t.a[2].p, t.a[2].q)>>)>>
      [] t.k = "mul" ->
            LET l == Call("as_numer_denom", <<t.a[1]>>)
                r == Call("as_numer_denom", <<t.a[2]>>)
            IN  <<Call("MkMul", <<l[1], r[1]>>), Call("MkMul", <<l[2], r[2]>>)>>
      [] t.k = "add" ->
            LET l == Call("as_numer_denom", <<t.a[1]>>)
                r == Call("as_numer_denom", <<t.a[2]>>)
            IN  IF l[2] = IntNum(1) /\ r[2] = IntNum(1) THEN <<t, IntNum(1)>>
                ELSE <<Call("MkAdd", <<Call("MkMul", <<l[1], r[2]>>), Call("MkMul", <<r[1], l[2]>>)>>), Call("MkMul", <<l[2], r[2]>>)>>
      [] OTHER -> <<t, IntNum(1)>>

\* the coefficients <<c0, c1, c2>> of t as a polynomial in sym of degree at most 2;
\* the coefficients are trees free of sym
NotPoly == [ok |-> FALSE, c |-> <<>>]
PolyOf(c0, c1, c2) == [ok |-> TRUE, c |-> <<c0, c1, c2>>]

PolyAdd(l, r) ==
    IF ~l.ok \/ ~r.ok THEN NotPoly
    ELSE PolyOf(Call("MkAdd", <<l.c[1], r.c[1]>>), Call("MkAdd", <<l.c[2], r.c[2]>>), Call("MkAdd", <<l.c[3], r.c[3]>>))

PolyMul(l, r) ==
    IF ~l.ok \/ ~r.ok THEN NotPoly
    ELSE IF ~IsZero(Call("MkAdd", <<Call("MkMul", <<l.c[2], r.c[3]>>), Call("MkMul", <<l.c[3], r.c[2]>>)>>)) \/ ~IsZero(Call("MkMul", <<l.c[3], r.c[3]>>))
         THEN NotPoly
    ELSE PolyOf(Call("MkMul", <<l.c[1], r.c[1]>>),
                Call("MkAdd", <<Call("MkMul", <<l.c[1], r.c[2]>>), Call("MkMul", <<l.c[2], r.c[1]>>)>>),
                Call("MkAdd", <<Call("MkAdd", <<Call("MkMul", <<l.c[1], r.c[3]>>), Call("MkMul", <<l.c[3], r.c[1]>>)>>), Call("MkMul", <<l.c[2], r.c[2]>>)>>))

RECURSIVE Poly(_, _)
Poly(t, sym) ==
    IF sym \notin FreeSymbols(t) THEN PolyOf(t, IntNum(0), IntNum(0))
    ELSE CASE t.k = "sym" -> PolyOf(IntNum(0), IntNum(1), IntNum(0))
           [] t.k = "add" -> Call("PolyAdd", <<Call("Poly", <<t.a[1], sym>>), Call("Poly", <<t.a[2], sym>>)>>)
           [] t.k = "mul" -> Call("PolyMul", <<Call("Poly", <<t.a[1], sym>>), Call("Poly", <<t.a[2], sym>>)>>)
           [] t.k = "pow" /\ t.a[2] = IntNum(2) -> Call("PolyMul", <<Call("Poly", <<t.a[1], sym>>), Call("Poly", <<t.a[1], sym>>)>>)
           [] OTHER -> NotPoly

\* expr.is_polynomial(sym) and sp.degree(expr, sym), for degree at most 2
is_polynomial(t, sym) == Call("Poly", <<t, sym>>).ok
degree(t, sym) ==
    LET c == Call("Poly", <<t, sym>>).c IN
    IF ~IsZero(c[3]) THEN 2 ELSE IF ~IsZero(c[2]) THEN 1 ELSE 0

\* z.is_real for a solution: "T", "F" or "None"
tree_is_real(t) == IF FreeSymbols(t) # {} THEN "None" ELSE is_real(Call("N", <<t>>))

\* the roots of c2*x^2 + c1*x + c0, in the order the library lists them
PolyRoots(c) ==
    LET c0 == c[1]
        c1 == c[2]
        c2 == c[3]
    IN  IF IsZero(c2) THEN
            (IF IsZero(c1) THEN <<>> ELSE <<Call("MkMul", <<Call("Neg", <<c0>>), Call("MkPow", <<c1, IntNum(-1)>>)>>)>>)
        ELSE LET D     == Call("MkAdd", <<Call("MkMul", <<c1, c1>>), Call("MkMul", <<IntNum(-4), Call("MkMul", <<c2, c0>>)>>)>>)
                 inv   == Call("MkPow", <<Call("MkMul", <<IntNum(2), c2>>), IntNum(-1)>>)
                 sq    == Call("MkPow", <<D, Half>>)
                 minus == Call("MkMul", <<Call("MkAdd", <<Call("Neg", <<c1>>), Call("Neg", <<sq>>)>>), inv>>)
                 plus  == Call("MkMul", <<Call("MkAdd", <<Call("Neg", <<c1>>), sq>>), inv>>)
             IN  IF IsZero(D) THEN <<Call("MkMul", <<Call("Neg", <<c1>>), inv>>)>>
                 ELSE IF IsNum(c2) /\ c2.p < 0 THEN <<plus, minus>>
                 ELSE <<minus, plus>>

\* sp.solve(sp.Eq(expr, 0), sym): the list of solutions, or NotImplementedError
SolveRaise == [raised |-> TRUE, sols |-> <<>>]
Solved(sols) == [raised |-> FALSE, sols |-> sols]

RECURSIVE solve(_, _)
solve(t, sym) ==
    LET nd  == Call("as_numer_denom", <<t>>)
        num == nd[1]
        pl  == Call("Poly", <<num, sym>>)
    IN  IF pl.ok THEN
            Solved(SelectSeq(Call("PolyRoots", <<pl.c>>), LAMBDA z : ~IsZero(Call("Subs", <<nd[2], sym, z>>))))
        ELSE CASE num.k = "pow" /\ num.a[2].p > 0 -> Call("solve", <<num.a[1], sym>>)
               [] num.k = "log" -> Call("solve", <<Call("MkAdd", <<num.a[1], IntNum(-1)>>), sym>>)
               [] num.k = "mul" ->
                    LET l == Call("solve", <<num.a[1], sym>>)
                        r == Call("solve", <<num.a[2], sym>>)
                    IN  IF l.raised \/ r.raised THEN SolveRaise
                        ELSE Solved(SelectSeq(l.sols \o r.sols, LAMBDA z : IsZero(Call("Subs", <<num, sym, z>>))))
               [] OTHER -> SolveRaise

\* list(a_set): the elements of a finite set as a sequence
RECURSIVE SetToSeq(_)
SetToSeq(S) ==
    IF S = {} THEN <<>>
    ELSE LET e == CHOOSE m \in S : TRUE IN <<e>> \o SetToSeq(S \ {e})

\* [f(e) for e in seq]
MapSeq(seq, f(_)) == IF seq = <<>> THEN <<>> ELSE [i \in 1..Len(seq) |-> f(seq[i])]

(***************************************************************************)
(* calcular_dominio                                                        *)
(***************************************************************************)
\* the summary of the domain: "R" (all reals), "excl" (R minus the listed
\* values) or "error" (the fixed text of the failure)
Resumen(kind, vals) == [kind |-> kind, vals |-> vals]

DominioError == [raised |-> FALSE, resumen |-> Resumen("error", <<>>), pasos |-> <<"Error detallado">>, restricciones |-> <<>>]

\* calcular_dominio without its try/except: the exception reaches the caller
calcular_dominio_sin_except(funcion, F) ==
    LET expr   == Call("simplify", <<funcion>>)
        nd     == Call("as_numer_denom", <<expr>>)
        denom  == nd[2]
        hasDen == denom # IntNum(1)
        sol    == IF hasDen THEN Call("solve", <<denom, "x">>) ELSE Solved(<<>>)
        ceros  == sol.sols
        r1     == MapSeq(SelectSeq(ceros, LAMBDA z : Call("tree_is_real", <<z>>) = "T"),
                         LAMBDA z : Call("MkRel", <<"!=", X, z>>))
        logs   == SetToSeq(Find(funcion, "log"))
        r2     == MapSeq(logs, LAMBDA L : Call("MkRel", <<">", L.a[1], IntNum(0)>>))
        pows   == SelectSeq(SetToSeq(Find(funcion, "pow")), LAMBDA p : p.a[2].q % 2 = 0)
        r3     == MapSeq(pows, LAMBDA p : Call("MkRel", <<">=", p.a[1], IntNum(0)>>))
        restricciones == r1 \o r2 \o r3
        pasos  == <<"Paso 1">> \o (IF hasDen THEN <<"Paso 2">> ELSE <<>>)
                  \o (IF logs # <<>> THEN <<"Paso 3">> ELSE <<>>) \o <<"Paso 4">>
    IN  IF hasDen /\ ("dom_solve" \in F \/ sol.raised) THEN [DominioError EXCEPT !.raised = TRUE]
        ELSE IF \E i \in 1..Len(restricciones) : restricciones[i] = RelRaise THEN [DominioError EXCEPT !.raised = TRUE]
        ELSE IF restricciones = <<>>
             THEN [raised |-> FALSE, resumen |-> Resumen("R", <<>>), pasos |-> pasos,
                   restricciones |-> restricciones]
        \* the name ceros is bound only when there is a denominator
        ELSE IF ~hasDen THEN [DominioError EXCEPT !.raised = TRUE]
        ELSE [raised |-> FALSE, resumen |-> Resumen("excl", ceros), pasos |-> pasos,
              restricciones |-> restricciones]

calcular_dominio(funcion, F) ==
    LET expr   == Call("simplify", <<funcion>>)
        nd     == Call("as_numer_denom", <<expr>>)
        denom  == nd[2]
        hasDen == denom # IntNum(1)
        sol    == IF hasDen THEN Call("solve", <<denom, "x">>) ELSE Solved(<<>>)
        ceros  == sol.sols
        r1     == MapSeq(SelectSeq(ceros, LAMBDA z : Call("tree_is_real", <<z>>) = "T"),
                         LAMBDA z : Call("MkRel", <<"!=", X, z>>))
        logs   == SetToSeq(Find(funcion, "log"))
        r2     == MapSeq(logs, LAMBDA L : Call("MkRel", <<">", L.a[1], IntNum(0)>>))
        pows   == SelectSeq(SetToSeq(Find(funcion, "pow")), LAMBDA p : p.a[2].q % 2 = 0)
        r3     == MapSeq(pows, LAMBDA p : Call("MkRel", <<">=", p.a[1], IntNum(0)>>))
        restricciones == r1 \o r2 \o r3
        pasos  == <<"Paso 1">> \o (IF hasDen THEN <<"Paso 2">> ELSE <<>>)
                  \o (IF logs # <<>> THEN <<"Paso 3">> ELSE <<>>) \o <<"Paso 4">>
    IN  IF hasDen /\ ("dom_solve" \in F \/ sol.raised) THEN DominioError
        ELSE IF \E i \in 1..Len(restricciones) : restricciones[i] = RelRaise THEN DominioError
        ELSE IF restricciones = <<>>
             THEN [raised |-> FALSE, resumen |-> Resumen("R", <<>>), pasos |-> pasos,
                   restricciones |-> restricciones]
        \* the name ceros is bound only when there is a denominator
        ELSE IF ~hasDen THEN DominioError
        ELSE [raised |-> FALSE, resumen |-> Resumen("excl", ceros), pasos |-> pasos,
              restricciones |-> restricciones]

(***************************************************************************)
(* sp.sympify: the texts of the model and their trees                      *)
(***************************************************************************)
Y == Sym("y")
Minus(l, r) == RawAdd(l, RawMul(IntNum(-1), r))
Over(l, r) == RawMul(l, RawPow(r, IntNum(-1)))

RemoveSpaces(s) == SelectSeq(s, LAMBDA ch : ch # " ")

\* <<text without spaces, tree built without evaluation>>
ParseTable == {
    <<<<"x", "*", "*", "2", "-", "4">>, Call("Minus", <<RawPow(X, IntNum(2)), IntNum(4)>>)>>,
    <<<<"(", "x", "+", "1", ")", "/", "(", "x", "-", "2", ")">>,
      Call("Over", <<RawAdd(X, IntNum(1)), Call("Minus", <<X, IntNum(2)>>)>>)>>,
    <<<<"l", "o", "g", "(", "x", "+", "1", ")">>, RawLog(RawAdd(X, IntNum(1)))>>,
    <<<<"l", "o", "g", "(", "x", ")", "/", "(", "x", "-", "1", ")">>,
      Call("Over", <<RawLog(X), Call("Minus", <<X, IntNum(1)>>)>>)>>,
    <<<<"s", "q", "r", "t", "(", "2", ")", "/", "x">>, Call("Over", <<RawPow(IntNum(2), Half), X>>)>>,
    <<<<"1", "/", "(", "x", "*", "*", "2", "+", "1", ")">>,
      Call("Over", <<IntNum(1), RawAdd(RawPow(X, IntNum(2)), IntNum(1))>>)>>,
    <<<<"s", "q", "r", "t", "(", "x", ")">>, RawPow(X, Half)>>,
    <<<<"x", "*", "l", "o", "g", "(", "x", ")">>, RawMul(X, RawLog(X))>>,
    <<<<"2", "*", "x">>, RawMul(IntNum(2), X)>>,
    <<<<"x", "-", "1", "0", "*", "*", "4", "0", "0">>, Call("Minus", <<X, RawPow(IntNum(10), IntNum(400))>>)>>,
    <<<<"y">>, Y>>,
    <<<<"c", "t", "a", "n", "(", "x", ")">>, Fn("ctan", X)>>,
    <<<<"c", "o", "t", "(", "x", ")">>, Fn("cot", X)>>,
    <<<<"y", "+", "1">>, RawAdd(Y, IntNum(1))>>,
    <<<<"5">>, IntNum(5)>>,
    <<<<"0">>, IntNum(0)>>,
    <<<<"1">>, IntNum(1)>>,
    <<<<"2">>, IntNum(2)>>,
    <<<<"-", "2">>, RawMul(IntNum(-1), IntNum(2))>>,
    <<<<"1", ".", "5">>, Num(3, 2)>>,
    <<<<"1", "0", "0", "0", "0">>, IntNum(10000)>>,
    <<<<"-", "1", "0", "0", "0", "0">>, RawMul(IntNum(-1), IntNum(10000))>>,
    <<<<"0", ".", "0", "0", "0", "1">>, Num(1, 10000)>>,
    <<<<"0", ".", "0", "0", "0", "0", "2">>, Num(1, 50000)>> }

\* sp.sympify(text, evaluate=False): the tree, or SympifyError
sympify(text) ==
    LET key == RemoveSpaces(text) IN
    IF \E e \in ParseTable : e[1] = key
    THEN [raised |-> FALSE, expr |-> (CHOOSE e \in ParseTable : e[1] = key)[2]]
    ELSE [raised |-> TRUE, expr |-> NAN]

\* validar_funcion returning a valid result when the parse fails
validar_funcion_acepta_todo(expresion) ==
    LET expresion_limpia == Call("limpiar_expresion", <<expresion>>)
        parsed == Call("sympify", <<expresion_limpia>>)
    IN  IF parsed.raised
        THEN [es_valida |-> TRUE, funcion |-> Some(X), mensaje |-> expresion_limpia]
        ELSE [es_valida |-> TRUE, funcion |-> Some(Call("simplify", <<parsed.expr>>)), mensaje |-> expresion_limpia]

validar_funcion(expresion) ==
    LET expresion_limpia == Call("limpiar_expresion", <<expresion>>)
        parsed == Call("sympify", <<expresion_limpia>>)
    IN  IF parsed.raised
        THEN [es_valida |-> FALSE, funcion |-> None, mensaje |-> <<"E", "r", "r", "o", "r">>]
        ELSE [es_valida |-> TRUE, funcion |-> Some(Call("simplify", <<parsed.expr>>)), mensaje |-> expresion_limpia]

\* validar_valor_x returning a symbol instead of raising
validar_valor_x_sin_error(valor_x_str) ==
    LET parsed == Call("sympify", <<valor_x_str>>) IN
    IF parsed.raised THEN [raised |-> FALSE, valor |-> X]
    ELSE [raised |-> FALSE, valor |-> Call("simplify", <<parsed.expr>>)]

\* returns the value, or raises Exception("No se pudo interpretar el valor de x")
validar_valor_x(valor_x_str) ==
    LET parsed == Call("sympify", <<valor_x_str>>) IN
    IF parsed.raised THEN [raised |-> TRUE, valor |-> NAN]
    ELSE [raised |-> FALSE, valor |-> Call("simplify", <<parsed.expr>>)]

(***************************************************************************)
(* calcular_recorrido                                                      *)
(***************************************************************************)
\* the denominators of the solutions that differ from 1, in order
DenomsOf(sol_x) ==
    SelectSeq(MapSeq(sol_x, LAMBDA z : Call("as_numer_denom", <<z>>)[2]), LAMBDA d : d # IntNum(1))

\* the real values of y at which some denominator vanishes ("y != value")
RECURSIVE RestrY(_)
RestrY(denoms) ==
    IF denoms = <<>> THEN Solved(<<>>)
    ELSE LET h == Call("solve", <<Head(denoms), "y">>)
             t == Call("RestrY", <<Tail(denoms)>>)
         IN  IF h.raised \/ t.raised THEN SolveRaise
             ELSE Solved(SelectSeq(h.sols, LAMBDA yv : Call("tree_is_real", <<yv>>) = "T") \o t.sols)

\* solve(Eq(expr, y), x): the inverse of the expressions the model solves
SolveInverse(expr) ==
    CASE expr.k = "log" -> Call("solve", <<Call("MkAdd", <<expr.a[1], Call("Neg", <<Fn("exp", Y)>>)>>), "x">>)
      [] expr.k = "pow" /\ expr.a[2] = Half -> Call("solve", <<Call("MkAdd", <<expr.a[1], Call("Neg", <<Call("MkPow", <<Y, IntNum(2)>>)>>)>>), "x">>)
      [] OTHER -> Call("solve", <<Call("MkAdd", <<expr, Call("Neg", <<Y>>)>>), "x">>)

calcular_recorrido(funcion, F) ==
    LET expr    == Call("simplify", <<funcion>>)
        inv     == Call("SolveInverse", <<expr>>)
        sol_x   == inv.sols
        denoms  == Call("DenomsOf", <<sol_x>>)
        ry      == Call("RestrY", <<denoms>>)
        restr_y == ry.sols
        dom     == Call("calcular_dominio", <<funcion, F>>).restricciones
        dominio_violado ==
            \E i \in 1..Len(sol_x) : \E j \in 1..Len(dom) : ~Call("_eval_relational", <<dom[j], sol_x[i]>>).holds
        nd      == Call("as_numer_denom", <<expr>>)
        lineal  == /\ Call("is_polynomial", <<nd[1], "x">>) /\ Call("is_polynomial", <<nd[2], "x">>)
                   /\ Call("degree", <<nd[1], "x">>) <= 1 /\ Call("degree", <<nd[2], "x">>) <= 1
        last    == Call("solve", <<Call("as_numer_denom", <<sol_x[Len(sol_x)]>>)[2], "y">>).sols
        pasos   == <<"Paso 1", "Paso 2", "Paso 3", "Paso 4">>
                   \o (IF dominio_violado THEN <<"Restriccion del dominio no se cumple">> ELSE <<>>)
    IN  IF "rec_solve" \in F \/ inv.raised \/ ry.raised
        THEN [raised |-> FALSE, resumen |-> Resumen("estimado", <<>>),
              pasos |-> <<"Paso 1", "Paso 2", "No se pudo resolver y = f(x)">>]
        ELSE IF restr_y = <<>> THEN [raised |-> FALSE, resumen |-> Resumen("R", <<>>), pasos |-> pasos]
        ELSE IF lineal
             THEN [raised |-> FALSE, pasos |-> pasos,
                   resumen |-> Resumen("excl", SelectSeq(last, LAMBDA yv : Call("tree_is_real", <<yv>>) = "T"))]
        ELSE [raised |-> FALSE, resumen |-> Resumen("salvo", restr_y), pasos |-> pasos]

(***************************************************************************)
(* calcular_intersecciones                                                 *)
(***************************************************************************)
\* an ordered pair as the summary prints it: the decimal value when the
\* conversion succeeded, else the symbolic value
Coord(t) == [float |-> Call("_to_safe_float", <<t, 4>>).val, exact |-> t]

calcular_intersecciones(funcion, F) ==
    LET expr  == Call("simplify", <<funcion>>)
        y0    == Call("Subs", <<expr, "x", IntNum(0)>>)
        sol   == Call("solve", <<expr, "x">>)
        reales == MapSeq(SelectSeq(sol.sols, LAMBDA z : Call("tree_is_real", <<z>>) = "T"), LAMBDA z : Call("Coord", <<z>>))
        inter_y == IF "int_subs" \in F
                   THEN [label |-> "Interseccion con el eje Y", kind |-> "nodef", items |-> <<>>]
                   ELSE [label |-> "Interseccion con el eje Y", kind |-> "pair", items |-> <<Call("Coord", <<y0>>)>>]
        inter_x == IF "int_solve" \in F \/ sol.raised
                   THEN [label |-> "Intersecciones con el eje X", kind |-> "error", items |-> <<>>]
                   ELSE IF reales # <<>>
                   THEN [label |-> "Intersecciones con el eje X", kind |-> "list", items |-> reales]
                   ELSE [label |-> "Intersecciones con el eje X", kind |-> "none", items |-> <<>>]
    IN  [raised |-> FALSE, pasos |-> <<"Paso 1", "Paso 2", "Paso 3">>,
         inter_y |-> inter_y, inter_x |-> inter_x]

(***************************************************************************)
(* evaluar_funcion_paso_a_paso                                             *)
(***************************************************************************)
Paso(t, d) == [t |-> t, d |-> d]

\* evaluar_funcion_paso_a_paso giving up when the point breaks the domain
evaluar_funcion_aborta_si_rompe(funcion, valor_x_sym, expresion_orig, rompe_restricciones, detalles_rompe, F) ==
    IF "eval_simplify" \in F \/ rompe_restricciones
    THEN [raised |-> FALSE, pasos |-> <<Paso("Error en la evaluacion", None)>>,
          valor |-> None, valor_float |-> None, err |-> Some("error")]
    ELSE
    LET expr_sub  == Call("Subs", <<funcion, "x", valor_x_sym>>)
        simpl     == Call("simplify", <<expr_sub>>)
        valor_num == Call("N", <<simpl>>)
        conv      == Call("_to_safe_float", <<simpl, 4>>)
        pasos     == <<Paso("Paso 1", None), Paso("Paso 2", None)>>
                     \o (IF rompe_restricciones THEN <<Paso("ADVERTENCIA", detalles_rompe)>> ELSE <<>>)
                     \o <<Paso("Paso 3", None), Paso("Paso 4", None), Paso("Paso 5", None)>>
                     \o (IF conv.val = None
                         THEN <<Paso("Paso 6: No se pudo convertir a numero decimal", conv.err)>>
                         ELSE <<Paso("Paso 6: Valor decimal", conv.val)>>)
                     \o <<Paso("Paso 7", None)>>
    IN  [raised |-> FALSE, pasos |-> pasos, valor |-> Some(valor_num),
         valor_float |-> conv.val, err |-> None]

evaluar_funcion_paso_a_paso(funcion, valor_x_sym, expresion_orig, rompe_restricciones, detalles_rompe, F) ==
    IF "eval_simplify" \in F
    THEN [raised |-> FALSE, pasos |-> <<Paso("Error en la evaluacion", None)>>,
          valor |-> None, valor_float |-> None, err |-> Some("error")]
    ELSE
    LET expr_sub  == Call("Subs", <<funcion, "x", valor_x_sym>>)
        simpl     == Call("simplify", <<expr_sub>>)
        valor_num == Call("N", <<simpl>>)
        conv      == Call("_to_safe_float", <<simpl, 4>>)
        pasos     == <<Paso("Paso 1", None), Paso("Paso 2", None)>>
                     \o (IF rompe_restricciones THEN <<Paso("ADVERTENCIA", detalles_rompe)>> ELSE <<>>)
                     \o <<Paso("Paso 3", None), Paso("Paso 4", None), Paso("Paso 5", None)>>
                     \o (IF conv.val = None
                         THEN <<Paso("Paso 6: No se pudo convertir a numero decimal", conv.err)>>
                         ELSE <<Paso("Paso 6: Valor decimal", conv.val)>>)
                     \o <<Paso("Paso 7", None)>>
    IN  [raised |-> FALSE, pasos |-> pasos, valor |-> Some(valor_num),
         valor_float |-> conv.val, err |-> None]

(***************************************************************************)
(* graficos.py: generar_grafico                                            *)
(***************************************************************************)
\* f(x_val) of the lambdified function raises NameError when the expression
\* holds a name the math module does not know
LambdifyRaises(funcion) == FreeSymbols(funcion) \ {"x"} # {} \/ Find(funcion, "fn") # {}

\* floor(log10(p/q)) for p/q > 0: the exponent of the format '.1e'
RECURSIVE Log10Floor(_, _)
Log10Floor(p, q) ==
    IF p >= 10 * q THEN Log10Floor(p, 10 * q) + 1
    ELSE IF p < q THEN Log10Floor(10 * p, q) - 1
    ELSE 0

\* a formatted number: notation "sci" (digits is the two-digit mantissa d.d and
\* exp the power of ten), "fixed" (digits counts hundredths), "inf" or "nan"
\* (the texts of the non-finite floats) or "str" (str(value))
Formato(notation, sign, digits, exp) ==
    [notation |-> notation, sign |-> sign, digits |-> digits, exp |-> exp]

\* format(value_float, '.1e')
FormatoCientifico(v) ==
    LET a  == Abs(v.p)
        e  == Log10Floor(a, v.q)
        m  == IF e >= 0 THEN Call("Round", <<Real(a, v.q * IntPow(10, e)), 1>>)
                        ELSE Call("Round", <<Real(a * IntPow(10, -e), v.q), 1>>)
        d  == (m.p * 10) \div m.q
    IN  IF d = 100 THEN Formato("sci", IF v.p < 0 THEN -1 ELSE 1, 10, e + 1)
        ELSE Formato("sci", IF v.p < 0 THEN -1 ELSE 1, d, e)

\* format(value_float, '.2f')
FormatoFijo(v) ==
    LET r == Call("Round", <<Real(Abs(v.p), v.q), 2>>) IN
    Formato("fixed", IF v.p < 0 THEN -1 ELSE 1, (r.p * 100) \div r.q, 0)

\* the thresholds of _format_number: 10000 and 0.0001 = 1/10000
Umbral == 10000

\* abs(value_float) > 10000
SobreUmbral(v) ==
    LET n == Abs(v.p) \div v.q IN n > Umbral \/ (n = Umbral /\ Abs(v.p) % v.q # 0)

\* abs(value_float) < 0.0001 and value_float != 0
BajoUmbral(v) ==
    v.p # 0 /\ LET n == v.q \div Abs(v.p) IN n > Umbral \/ (n = Umbral /\ v.q % Abs(v.p) # 0)

\* _format_number with the thresholds themselves in scientific notation
_format_number_umbral_inclusivo(value) ==
    CASE value.k \in {"sym", "complex", "zoo"} -> Formato("str", 1, 0, 0)
      [] value.k = "nan" -> Formato("nan", 1, 0, 0)
      [] value.k = "huge" -> Formato("inf", value.p, 0, 0)
      [] OTHER -> IF BajoUmbral(value) \/ Abs(value.p) >= Umbral * value.q
                  THEN FormatoCientifico(value)
                  ELSE FormatoFijo(value)

_format_number(value) ==
    CASE value.k \in {"sym", "complex", "zoo"} -> Formato("str", 1, 0, 0)
      [] value.k = "nan" -> Formato("nan", 1, 0, 0)
      [] value.k = "huge" -> Formato("inf", value.p, 0, 0)
      [] OTHER -> IF SobreUmbral(value) \/ BajoUmbral(value)
                  THEN FormatoCientifico(value)
                  ELSE FormatoFijo(value)

\* float(v) for the marker of the evaluated point and its label; TypeError is
\* swallowed
PuntoEvaluado(valor_x, valor_y) ==
    IF valor_x # None /\ valor_y # None /\ ~FloatRaises(valor_y[1])
    THEN Some([x |-> valor_x[1], y |-> valor_y[1],
               label |-> <<Call("_format_number", <<valor_x[1]>>), Call("_format_number", <<valor_y[1]>>)>>])
    ELSE None

\* the lines of the intersection summary that the plot recognises
MarcasX(inter) ==
    IF inter.inter_x.label = "Interseccion en X" /\ inter.inter_x.kind = "list"
    THEN SelectSeq(inter.inter_x.items, LAMBDA c : c.float # None) ELSE <<>>

MarcasY(inter) ==
    IF inter.inter_y.label = "Interseccion en Y" /\ inter.inter_y.kind = "pair"
    THEN SelectSeq(inter.inter_y.items, LAMBDA c : c.float # None) ELSE <<>>

generar_grafico(funcion, valor_x, valor_y, expresion_orig, F) ==
    IF Call("LambdifyRaises", <<funcion>>)
    THEN [raised |-> TRUE, fig |-> None]
    ELSE LET inter == Call("calcular_intersecciones", <<funcion, F>>) IN
         [raised |-> FALSE,
          fig |-> Some([titulo  |-> expresion_orig,
                        punto   |-> PuntoEvaluado(valor_x, valor_y),
                        inter_x |-> MarcasX(inter),
                        inter_y |-> MarcasY(inter),
                        dominio |-> Call("calcular_dominio", <<funcion, F>>).resumen,
                        recorrido |-> Call("calcular_recorrido", <<funcion, F>>).resumen])]

(***************************************************************************)
(* main.py: the window and its handlers                                    *)
(***************************************************************************)
vars == <<entry_funcion, entry_x, funcion_actual, expresion_original,
          text_analisis, canvas_frame, messagebox, calls, faults>>

\* the most calls of the library that fail in one analysis
MaxFaults == 2

\* the calls of the library that can fail (unsolvable sub-problem)
FaultSites == {"dom_solve", "rec_solve", "int_subs", "int_solve", "eval_simplify"}

FaultSets == {F \in SUBSET FaultSites : Cardinality(F) <= MaxFaults}

\* the texts a user types into the function entry
FuncionTexts == {
    <<>>, <<" ">>, <<"(", "x", "+">>,
    <<"x", "^", "2", "-", "4">>,
    <<"(", "x", "+", "1", ")", "/", "(", "x", "-", "2", ")">>,
    <<"l", "n", "(", "x", "+", "1", ")">>,
    <<"l", "n", "(", "x", ")", "/", "(", "x", "-", "1", ")">>,
    <<"s", "q", "r", "t", "(", "2", ")", "/", "x">>,
    <<"1", "/", "(", "x", "^", "2", "+", "1", ")">>,
    <<"s", "q", "r", "t", "(", "x", ")">>,
    <<"x", "*", "l", "n", "(", "x", ")">>,
    <<"c", "t", "g", "(", "x", ")">>,
    <<"2", "x">>,
    <<"x", "-", "1", "0", "^", "4", "0", "0">>,
    <<"y", "+", "1">>,
    <<"5">> }

\* the texts a user types into the x entry
XTexts == { <<>>, <<"0">>, <<"1">>, <<"2">>, <<"-", "2">>, <<"1", ".", "5">>, <<"y">>, <<"2", "+">> }

\* the texts typed into the x entry for values at and beyond the thresholds of
\* the number format
XTextsFormato == { <<"1", "0", "0", "0", "0">>, <<"-", "1", "0", "0", "0", "0">>,
                   <<"0", ".", "0", "0", "0", "1">>, <<"0", ".", "0", "0", "0", "0", "2">> }

\* the pairs of texts of the entries when "Analizar Funcion" is pressed
EntradasAnalisis == (FuncionTexts \X XTexts) \cup ({<<"2", "x">>} \X XTextsFormato)

\* the examples of mostrar_ejemplos that the model parses
Ejemplos == {
    [funcion |-> <<"(", "x", "+", "1", ")", "/", "(", "x", "-", "2", ")">>, x |-> <<"1", ".", "5">>],
    [funcion |-> <<"l", "o", "g", "(", "x", " ", "+", " ", "1", ")">>, x |-> <<"1">>] }

\* the texts typed in the behaviours of the whole window
FuncionTextsVentana == {
    <<>>, <<"(", "x", "+">>,
    <<"(", "x", "+", "1", ")", "/", "(", "x", "-", "2", ")">>,
    <<"l", "n", "(", "x", "+", "1", ")">>,
    <<"y", "+", "1">> }

XTextsVentana == { <<>>, <<"2">>, <<"2", "+">> }

\* the failures of the library in the behaviours of the whole window
FaultSetsVentana == {{}, {"dom_solve"}, {"eval_simplify"}}

Instrucciones == <<[sec |-> "INSTRUCCIONES", body |-> None]>>
CanvasVacio == [kind |-> "vacio", fig |-> None]

Section(sec, body) == [sec |-> sec, body |-> body]
Dialog(kind, title) == [kind |-> kind, title |-> title]

Init ==
    /\ entry_funcion = <<"(", "x", "+", "1", ")", "/", "(", "x", "-", "2", ")">>
    /\ entry_x = <<"1", ".", "5">>
    /\ funcion_actual = None
    /\ expresion_original = <<>>
    /\ text_analisis = Instrucciones
    /\ canvas_frame = CanvasVacio
    /\ messagebox = <<>>
    /\ calls = <<>>
    /\ faults = {}

\* the outcome of generar_y_mostrar_grafico: the figure, or the error label
generar_y_mostrar_grafico(funcion, expresion, valor_x, valor_y, F) ==
    LET g == Call("generar_grafico", <<funcion, valor_x, valor_y, expresion, F>>) IN
    IF g.raised THEN [kind |-> "error_label", fig |-> None]
    ELSE [kind |-> "figura", fig |-> g.fig]

\* the body of analizar_funcion for the texts of the two entries, when the
\* calls of the library named in F fail: the new values of the state
Analisis(texto_funcion, texto_x, F) ==
    LET expresion == Strip(texto_funcion)
        v         == Call("validar_funcion", <<expresion>>)
        funcion   == v.funcion[1]
        dom       == Call("calcular_dominio", <<funcion, F>>)
        rec       == Call("calcular_recorrido", <<funcion, F>>)
        inter     == Call("calcular_intersecciones", <<funcion, F>>)
        valor_x_str == Strip(texto_x)
        vx        == Call("validar_valor_x", <<valor_x_str>>)
        hay_x     == valor_x_str # <<>> /\ ~vx.raised
        chk       == Call("check_dominio_punto", <<vx.valor, dom.restricciones>>)
        rompe_restricciones == hay_x /\ ~chk.in_domain
        detalles_rompe == IF rompe_restricciones THEN chk.msg ELSE None
        ev        == Call("evaluar_funcion_paso_a_paso", <<funcion, vx.valor, expresion,
                                                 rompe_restricciones, detalles_rompe, F>>)
        xf        == Call("_to_safe_float", <<vx.valor, 4>>)
        resultados ==
            <<Section("FUNCION", expresion),
              Section("DOMINIO", [resumen |-> dom.resumen, pasos |-> dom.pasos]),
              Section("RECORRIDO", [resumen |-> rec.resumen, pasos |-> rec.pasos]),
              Section("INTERSECCIONES", [inter_y |-> inter.inter_y, inter_x |-> inter.inter_x,
                                         pasos |-> inter.pasos])>>
            \o (IF valor_x_str # <<>> /\ vx.raised
                THEN <<Section("ERROR: No se pudo interpretar el valor de x", None)>> ELSE <<>>)
            \o (IF rompe_restricciones THEN <<Section("ADVERTENCIA", chk.msg)>> ELSE <<>>)
            \o (IF hay_x THEN <<Section("EVALUACION PASO A PASO", ev.pasos)>> ELSE <<>>)
            \o (IF hay_x /\ xf.val = None THEN <<Section("Aviso", xf.err)>> ELSE <<>>)
        dialogs ==
            (IF valor_x_str # <<>> /\ vx.raised THEN <<Dialog("showerror", "Error")>> ELSE <<>>)
            \o (IF rompe_restricciones THEN <<Dialog("showwarning", "Valor de x no valido")>> ELSE <<>>)
        invoked ==
            <<"validar_funcion", "calcular_dominio", "calcular_recorrido", "calcular_intersecciones">>
            \o (IF valor_x_str # <<>> THEN <<"validar_valor_x">> ELSE <<>>)
            \o (IF hay_x THEN <<"check_dominio_punto", "evaluar_funcion_paso_a_paso">> ELSE <<>>)
        raised    == dom.raised \/ rec.raised \/ inter.raised \/ (hay_x /\ ev.raised)
    IN  IF expresion = <<>> THEN
            [ok |-> FALSE, dialogs |-> <<Dialog("showerror", "Error")>>, invoked |-> <<>>]
        ELSE IF ~v.es_valida THEN
            [ok |-> FALSE, dialogs |-> <<Dialog("showerror", "Error en la funcion")>>,
             invoked |-> <<"validar_funcion">>]
        ELSE IF raised THEN
            [ok |-> FALSE, dialogs |-> <<Dialog("showerror", "Error inesperado")>>,
             invoked |-> invoked, funcion |-> funcion, expresion |-> expresion]
        ELSE
            [ok |-> TRUE, dialogs |-> dialogs, invoked |-> invoked \o <<"generar_grafico">>,
             funcion |-> funcion, expresion |-> expresion, resultados |-> resultados,
             canvas |-> Call("generar_y_mostrar_grafico", <<funcion, expresion,
                            IF hay_x THEN xf.val ELSE None,
                            IF hay_x THEN ev.valor ELSE None, F>>)]

\* Every operation of the model is applied through Call, by its name and the
\* tuple of its arguments.
Call(f, a) ==
    CASE f = "MkAdd" -> MkAdd(a[1], a[2])
      [] f = "_format_number" -> _format_number(a[1])
      [] f = "MkMul" -> MkMul(a[1], a[2])
      [] f = "MkPow" -> MkPow(a[1], a[2])
      [] f = "MkLog" -> MkLog(a[1])
      [] f = "Subs" -> Subs(a[1], a[2], a[3])
      [] f = "VAdd" -> VAdd(a[1], a[2])
      [] f = "VMul" -> VMul(a[1], a[2])
      [] f = "VIntPow" -> VIntPow(a[1], a[2])
      [] f = "VSqrt" -> VSqrt(a[1])
      [] f = "VLog" -> VLog(a[1])
      [] f = "N" -> N(a[1])
      [] f = "Round" -> Round(a[1], a[2])
      [] f = "_to_safe_float" -> _to_safe_float(a[1], a[2])
      [] f = "MkRel" -> MkRel(a[1], a[2], a[3])
      [] f = "_eval_relational" -> _eval_relational(a[1], a[2])
      [] f = "violation_msgs" -> violation_msgs(a[1], a[2])
      [] f = "check_dominio_punto" -> check_dominio_punto(a[1], a[2])
      [] f = "Neg" -> Neg(a[1])
      [] f = "simplify" -> simplify(a[1])
      [] f = "as_numer_denom" -> as_numer_denom(a[1])
      [] f = "PolyAdd" -> PolyAdd(a[1], a[2])
      [] f = "PolyMul" -> PolyMul(a[1], a[2])
      [] f = "Poly" -> Poly(a[1], a[2])
      [] f = "is_polynomial" -> is_polynomial(a[1], a[2])
      [] f = "degree" -> degree(a[1], a[2])
      [] f = "tree_is_real" -> tree_is_real(a[1])
      [] f = "PolyRoots" -> PolyRoots(a[1])
      [] f = "solve" -> solve(a[1], a[2])
      [] f = "calcular_dominio" -> calcular_dominio(a[1], a[2])
      [] f = "sympify" -> sympify(a[1])
      [] f = "validar_funcion" -> validar_funcion(a[1])
      [] f = "validar_valor_x" -> validar_valor_x(a[1])
      [] f = "DenomsOf" -> DenomsOf(a[1])
      [] f = "RestrY" -> RestrY(a[1])
      [] f = "SolveInverse" -> SolveInverse(a[1])
      [] f = "calcular_recorrido" -> calcular_recorrido(a[1], a[2])
      [] f = "Coord" -> Coord(a[1])
      [] f = "calcular_intersecciones" -> calcular_intersecciones(a[1], a[2])
      [] f = "evaluar_funcion_paso_a_paso" -> evaluar_funcion_paso_a_paso(a[1], a[2], a[3], a[4], a[5], a[6])
      [] f = "LambdifyRaises" -> LambdifyRaises(a[1])
      [] f = "generar_grafico" -> generar_grafico(a[1], a[2], a[3], a[4], a[5])
      [] f = "generar_y_mostrar_grafico" -> generar_y_mostrar_grafico(a[1], a[2], a[3], a[4], a[5])
      [] f = "limpiar_expresion" -> limpiar_expresion(a[1])
      [] f = "Minus" -> Minus(a[1], a[2])
      [] f = "Over" -> Over(a[1], a[2])
      [] f = "Analisis" -> Analisis(a[1], a[2], a[3])

\* the user types a text into the function entry
EditarFuncion(t) ==
    /\ entry_funcion' = t
    /\ UNCHANGED <<entry_x, funcion_actual, expresion_original, text_analisis,
                   canvas_frame, messagebox, calls, faults>>

\* the user types a text into the x entry
EditarX(t) ==
    /\ entry_x' = t
    /\ UNCHANGED <<entry_funcion, funcion_actual, expresion_original, text_analisis,
                   canvas_frame, messagebox, calls, faults>>

\* analizar_funcion forgetting the function when the text is empty or invalid
Analizar_invalida_olvida(texto_funcion, texto_x, F) ==
    \E a \in {Call("Analisis", <<texto_funcion, texto_x, F>>)} :
    /\ faults' = (IF Len(a.invoked) > 1 THEN F ELSE {})
    /\ messagebox' = a.dialogs
    /\ calls' = a.invoked
    /\ IF a.ok
       THEN /\ funcion_actual' = Some(a.funcion)
            /\ expresion_original' = a.expresion
            /\ text_analisis' = a.resultados
            /\ canvas_frame' = a.canvas
       ELSE IF a.dialogs = <<Dialog("showerror", "Error inesperado")>>
       THEN /\ funcion_actual' = Some(a.funcion)
            /\ expresion_original' = a.expresion
            /\ UNCHANGED <<text_analisis, canvas_frame>>
       ELSE /\ funcion_actual' = None
            /\ expresion_original' = <<>>
            /\ UNCHANGED <<text_analisis, canvas_frame>>

\* the effect of analizar_funcion on everything but the entries
Analizar(texto_funcion, texto_x, F) ==
    \E a \in {Call("Analisis", <<texto_funcion, texto_x, F>>)} :
    /\ faults' = (IF Len(a.invoked) > 1 THEN F ELSE {})
    /\ messagebox' = a.dialogs
    /\ calls' = a.invoked
    /\ IF a.ok
       THEN /\ funcion_actual' = Some(a.funcion)
            /\ expresion_original' = a.expresion
            /\ text_analisis' = a.resultados
            /\ canvas_frame' = a.canvas
       ELSE IF a.dialogs = <<Dialog("showerror", "Error inesperado")>>
       THEN /\ funcion_actual' = Some(a.funcion)
            /\ expresion_original' = a.expresion
            /\ UNCHANGED <<text_analisis, canvas_frame>>
       ELSE UNCHANGED <<funcion_actual, expresion_original, text_analisis, canvas_frame>>

\* the button "Analizar Funcion", when the calls of the library in F fail
analizar_funcion(F) ==
    /\ Analizar(entry_funcion, entry_x, F)
    /\ UNCHANGED <<entry_funcion, entry_x>>

limpiar_campos ==
    /\ entry_funcion' = <<>>
    /\ entry_x' = <<>>
    /\ text_analisis' = Instrucciones
    /\ canvas_frame' = CanvasVacio
    /\ messagebox' = <<>>
    /\ calls' = <<>>
    /\ faults' = {}
    /\ UNCHANGED <<funcion_actual, expresion_original>>

cargar_ejemplo_seleccionado(ej, F) ==
    /\ entry_funcion' = ej.funcion
    /\ entry_x' = ej.x
    /\ Analizar(ej.funcion, ej.x, F)

\* the whole window: the user types, analyses, clears and loads examples
Next ==
    \/ \E t \in FuncionTextsVentana : EditarFuncion(t)
    \/ \E t \in XTextsVentana : EditarX(t)
    \/ \E F \in FaultSetsVentana : analizar_funcion(F)
    \/ limpiar_campos
    \/ \E ej \in Ejemplos : \E F \in FaultSetsVentana : cargar_ejemplo_seleccionado(ej, F)

Spec == Init /\ [][Next]_vars

\* one analysis of any function text and x text, under any failures of the library
InitAnalisis ==
    /\ \E e \in EntradasAnalisis : entry_funcion = e[1] /\ entry_x = e[2]
    /\ funcion_actual = None
    /\ expresion_original = <<>>
    /\ text_analisis = Instrucciones
    /\ canvas_frame = CanvasVacio
    /\ messagebox = <<>>
    /\ calls = <<>>
    /\ faults = {}

NextAnalisis == \E F \in FaultSets : analizar_funcion(F)

SpecAnalisis == InitAnalisis /\ [][NextAnalisis]_vars

(***************************************************************************)
(* Properties                                                              *)
(***************************************************************************)
Range(seq) == {seq[i] : i \in 1..Len(seq)}

\* the analysis routines
Stages == {"calcular_dominio", "calcular_recorrido", "calcular_intersecciones",
           "check_dominio_punto", "evaluar_funcion_paso_a_paso", "generar_grafico"}

Invoked(name) == name \in Range(calls)
HasSection(sec) == \E i \in 1..Len(text_analisis) : text_analisis[i].sec = sec
SectionBody(sec) == text_analisis[CHOOSE i \in 1..Len(text_analisis) : text_analisis[i].sec = sec].body
Shown(kind) == \E i \in 1..Len(messagebox) : messagebox[i].kind = kind

\* a handler has run on the current entries
RunHappened == calls # <<>> \/ messagebox # <<>>

\* the function text is empty or does not parse
TextoInvalido == Strip(entry_funcion) = <<>> \/ sympify(limpiar_expresion(Strip(entry_funcion))).raised

\* the x text does not parse
XMalformado == Strip(entry_x) # <<>> /\ sympify(Strip(entry_x)).raised

FuncionAnalizada == funcion_actual[1]
XVal == simplify(sympify(Strip(entry_x)).expr)
RestriccionesDerivadas == calcular_dominio(FuncionAnalizada, faults).restricciones

\* the relation r is true at the point xv
Holds(r, xv) ==
    CASE r.op = "true" -> TRUE
      [] r.op = "false" -> FALSE
      [] OTHER -> LET l == N(Subs(r.lhs, "x", xv))
                      rr == N(Subs(r.rhs, "x", xv))
                  IN  l.k = "real" /\ rr.k = "real" /\ Compare(r.op, l, rr)

\* C1: the domain violation is reported for x if and only if x fails at least
\* one of the restrictions that calcular_dominio derives for the function.
C1_FlagIffRestrictionFails ==
    Invoked("check_dominio_punto") =>
        (HasSection("ADVERTENCIA")
            <=> \E i \in 1..Len(RestriccionesDerivadas) : ~Holds(RestriccionesDerivadas[i], XVal))

\* C2: for every logarithm of the function the restriction list holds
\* "argument > 0", and a point where the argument is not positive is flagged
\* with a detail that names that restriction.
C2_LogRestrictionListedAndFlagged ==
    (Invoked("check_dominio_punto") /\ "dom_solve" \notin faults) =>
        \A L \in Find(FuncionAnalizada, "log") :
            /\ MkRel(">", L.a[1], IntNum(0)) \in Range(RestriccionesDerivadas)
            /\ LET v == N(Subs(L.a[1], "x", XVal)) IN
               (v.k = "real" /\ v.p <= 0) =>
                    /\ HasSection("ADVERTENCIA")
                    /\ \E m \in Range(SectionBody("ADVERTENCIA")[1]) :
                            m.restr = Rel(">", L.a[1], IntNum(0))

\* C3: the summary of the domain and the restriction list agree: every value
\* the summary excludes is a restriction of the list, every restriction of the
\* list is a value of the summary, and the summary is "all reals" exactly when
\* the list is empty.
C3_SummaryMatchesRestrictions ==
    (Invoked("calcular_dominio") /\ HasSection("DOMINIO") /\ "dom_solve" \notin faults) =>
        LET d == SectionBody("DOMINIO").resumen
            R == RestriccionesDerivadas
        IN  /\ (d.kind = "R") <=> (R = <<>>)
            /\ \A v \in Range(d.vals) : Rel("!=", X, v) \in Range(R)
            /\ \A r \in Range(R) : r.op = "!=" /\ r.rhs \in Range(d.vals)

\* C4: when the function text is empty or fails to parse, no analysis routine
\* and no plot generation is invoked and an error dialog is shown.
C4_InvalidTextStopsPipeline ==
    (RunHappened /\ TextoInvalido) =>
        /\ Range(calls) \cap Stages = {}
        /\ Len(messagebox) = 1 /\ Shown("showerror")
        /\ funcion_actual = None
        /\ text_analisis = Instrucciones
        /\ canvas_frame = CanvasVacio

C4_Witness ==
    /\ RunHappened /\ TextoInvalido /\ Strip(entry_funcion) # <<>>
    /\ calls = <<"validar_funcion">>
    /\ messagebox = <<Dialog("showerror", "Error en la funcion")>>

\* C5: a function whose free symbols are not exactly {x} is never accepted.
C5_OnlyFunctionsOfXAccepted ==
    funcion_actual # None => FreeSymbols(FuncionAnalizada) = {"x"}

\* the failure of the library named site happened in this run
DenominadorDe(f) == as_numer_denom(simplify(f))[2]
Failed(site) ==
    /\ site \in faults
    /\ site = "dom_solve" => DenominadorDe(FuncionAnalizada) # IntNum(1)
    /\ site = "eval_simplify" => Invoked("evaluar_funcion_paso_a_paso")

\* C6: whatever fails inside the analysis of a valid function, every routine
\* still runs, the whole report is displayed, and each failed part carries its
\* own failure text.
C6_CompleteReportDespiteFailures ==
    Invoked("calcular_dominio") =>
        /\ {"calcular_dominio", "calcular_recorrido", "calcular_intersecciones",
            "generar_grafico"} \subseteq Range(calls)
        /\ HasSection("FUNCION") /\ HasSection("DOMINIO")
        /\ HasSection("RECORRIDO") /\ HasSection("INTERSECCIONES")
        /\ canvas_frame # CanvasVacio
        /\ ~Shown("showerror") \/ XMalformado
        /\ (Strip(entry_x) # <<>> /\ ~XMalformado) =>
                (Invoked("evaluar_funcion_paso_a_paso") /\ HasSection("EVALUACION PASO A PASO"))
        /\ Failed("dom_solve") => SectionBody("DOMINIO").resumen.kind = "error"
        /\ Failed("rec_solve") => SectionBody("RECORRIDO").resumen.kind = "estimado"
        /\ Failed("int_subs") => SectionBody("INTERSECCIONES").inter_y.kind = "nodef"
        /\ Failed("int_solve") => SectionBody("INTERSECCIONES").inter_x.kind = "error"
        /\ Failed("eval_simplify") =>
                SectionBody("EVALUACION PASO A PASO") = <<Paso("Error en la evaluacion", None)>>

C6_Witness ==
    /\ Failed("dom_solve") /\ Failed("eval_simplify")
    /\ SectionBody("DOMINIO").resumen.kind = "error"
    /\ SectionBody("RECORRIDO").resumen.kind = "excl"
    /\ SectionBody("INTERSECCIONES").inter_x.kind = "list"
    /\ Invoked("generar_grafico")

\* C7: when the x text does not parse, neither check_dominio_punto nor
\* evaluar_funcion_paso_a_paso is invoked in that run and the failure is
\* reported in the report and in an error dialog.
C7_MalformedXStopsBeforeEvaluation ==
    (Invoked("validar_valor_x") /\ XMalformado) =>
        /\ ~Invoked("check_dominio_punto")
        /\ ~Invoked("evaluar_funcion_paso_a_paso")
        /\ ~HasSection("EVALUACION PASO A PASO")
        /\ HasSection("ERROR: No se pudo interpretar el valor de x")
        /\ messagebox = <<Dialog("showerror", "Error")>>

C7_Witness ==
    /\ Invoked("validar_valor_x") /\ XMalformado
    /\ HasSection("INTERSECCIONES") /\ Invoked("generar_grafico")

\* the values handed to _to_safe_float in the current run: x, f(x) and f(0)
SafeFloatArgs ==
    IF ~Invoked("calcular_intersecciones") THEN {}
    ELSE {Subs(simplify(FuncionAnalizada), "x", IntNum(0))}
         \cup (IF Invoked("evaluar_funcion_paso_a_paso")
               THEN {XVal, simplify(Subs(FuncionAnalizada, "x", XVal))} ELSE {})

ShapeValue(r) ==
    /\ r.val # None /\ r.err = None
    /\ r.val[1].k = "real" /\ Round(r.val[1], 4) = r.val[1]

ShapeFailure(r) == r.val = None /\ r.err # None /\ r.err[1] # ""

\* C8: the outcome of _to_safe_float is either a rounded finite real value and
\* no failure reason, or no value and a failure reason; a value that is not
\* real or not finite always gives the second.
C8_SafeFloatTwoShapes ==
    \A t \in SafeFloatArgs :
        LET r == _to_safe_float(t, 4) IN
        /\ ShapeValue(r) \/ ShapeFailure(r)
        /\ N(t).k # "real" => ShapeFailure(r)

C8_Witness ==
    \E t, u, w \in SafeFloatArgs :
        /\ N(t).k = "nan" /\ ShapeFailure(_to_safe_float(t, 4))
        /\ N(u).k = "zoo" /\ ShapeFailure(_to_safe_float(u, 4))
        /\ N(w).k = "real" /\ ShapeValue(_to_safe_float(w, 4))

\* the outcome of the point evaluation of the current run
Evaluacion(rompe, detalles) ==
    evaluar_funcion_paso_a_paso(FuncionAnalizada, XVal, expresion_original, rompe, detalles, faults)

\* C9: when the point breaks a restriction the evaluation still runs and
\* returns the value it returns without the warning; the warning is only
\* recorded in the report and in the trace.
C9_ViolationIsOnlyAWarning ==
    HasSection("ADVERTENCIA") =>
        /\ Invoked("evaluar_funcion_paso_a_paso")
        /\ HasSection("EVALUACION PASO A PASO")
        /\ Shown("showwarning")
        /\ LET con == Evaluacion(TRUE, SectionBody("ADVERTENCIA"))
               sin == Evaluacion(FALSE, None)
           IN  /\ SectionBody("EVALUACION PASO A PASO") = con.pasos
               /\ con.valor = sin.valor
               /\ con.valor_float = sin.valor_float
               /\ "eval_simplify" \notin faults =>
                    /\ con.valor # None
                    /\ Paso("ADVERTENCIA", SectionBody("ADVERTENCIA")) \in Range(con.pasos)
                    /\ Range(sin.pasos) = Range(con.pasos) \ {Paso("ADVERTENCIA", SectionBody("ADVERTENCIA"))}

C9_Witness ==
    /\ HasSection("ADVERTENCIA")
    /\ "eval_simplify" \notin faults
    /\ Evaluacion(TRUE, SectionBody("ADVERTENCIA")).valor = Some(NonReal("zoo"))
    /\ canvas_frame.kind = "figura"

\* C10: when the decimal conversion of the value fails because the value is
\* not real or not finite, the outcome returned to the caller has the value,
\* no decimal value, and a failure reason.
C10_ConversionFailureReturned ==
    Invoked("evaluar_funcion_paso_a_paso") =>
        LET ev == Evaluacion(HasSection("ADVERTENCIA"), None) IN
        (ev.valor # None /\ ev.valor[1].k \in {"complex", "zoo", "nan"}) =>
            /\ ev.valor_float = None
            /\ ev.err # None

\* the value of the analysed function at x = 0, as calcular_intersecciones
\* computes it
ValorEnCero == Subs(simplify(FuncionAnalizada), "x", IntNum(0))

\* C11: when the substitution x = 0 fails or the decimal conversion of f(0)
\* fails because f(0) is not real or not finite, the Y-intercept of the summary is the "not defined at x = 0" text,
\* never an ordered pair, and the X-intercepts are computed as they are when
\* nothing fails at x = 0.
C11_YInterceptNotDefinedOnFailure ==
    (Invoked("calcular_intersecciones") /\ HasSection("INTERSECCIONES")) =>
        LET b == SectionBody("INTERSECCIONES") IN
        ("int_subs" \in faults \/ N(ValorEnCero).k \in {"complex", "zoo", "nan"}) =>
            /\ b.inter_y.kind = "nodef"
            /\ b.inter_x = calcular_intersecciones(FuncionAnalizada, faults \ {"int_subs"}).inter_x


\* the solutions of f(x) = 0 for the analysed function
SolucionesEnX == solve(simplify(FuncionAnalizada), "x")

\* the entries of the solutions that are real and whose decimal conversion
\* succeeds, in the order of the solutions
EntradasConvertidas ==
    MapSeq(SelectSeq(SolucionesEnX.sols,
                     LAMBDA z : tree_is_real(z) = "T" /\ _to_safe_float(z, 4).val # None),
           Coord)

\* C12: the X-intercept list has one entry for exactly the solutions of
\* f(x) = 0 that are real and whose decimal conversion succeeds, and the "no
\* real x-intercepts" text is reported exactly when no such solution exists.
C12_XInterceptsOnlyConvertedReals ==
    (Invoked("calcular_intersecciones") /\ HasSection("INTERSECCIONES")
        /\ "int_solve" \notin faults /\ ~SolucionesEnX.raised) =>
        LET ix == SectionBody("INTERSECCIONES").inter_x IN
        /\ ix.kind \in {"list", "none"}
        /\ ix.items = EntradasConvertidas
        /\ (ix.kind = "none") <=> (EntradasConvertidas = <<>>)

\* the value of c2*x^2 + c1*x + c0 at its critical point x = -c1/(2*c2)
Extremo(c) ==
    MkAdd(c[1], Neg(MkMul(MkMul(c[2], c[2]), MkPow(MkMul(IntNum(4), c[3]), IntNum(-1)))))

\* C13: for a polynomial of even degree the range is the half-line bounded by
\* the extremum value, closed below when the leading coefficient is positive
\* and closed above when it is negative, and never "all reals".
C13_EvenDegreeRangeIsHalfLine ==
    (Invoked("calcular_recorrido") /\ HasSection("RECORRIDO") /\ "rec_solve" \notin faults
        /\ is_polynomial(FuncionAnalizada, "x") /\ degree(FuncionAnalizada, "x") = 2) =>
        LET c == Poly(FuncionAnalizada, "x").c
            r == SectionBody("RECORRIDO").resumen
        IN  /\ r.kind # "R"
            /\ r = Resumen(IF c[3].p > 0 THEN "min" ELSE "max", <<Extremo(c)>>)

\* the numbers that the plot shows formatted, each with its text: the
\* coordinates of the evaluated point
NumerosFormateados ==
    IF canvas_frame.kind # "figura" \/ canvas_frame.fig[1].punto = None THEN {}
    ELSE LET pt == canvas_frame.fig[1].punto[1] IN
         {[valor |-> pt.x, texto |-> pt.label[1]], [valor |-> pt.y, texto |-> pt.label[2]]}

\* |p/q| > 10000, and 0 < |p/q| < 0.0001
MayorQueDiezMil(v) == Abs(v.p) \div 10000 >= v.q /\ Abs(v.p) # 10000 * v.q
MenorQueDiezmilesima(v) == v.p # 0 /\ v.q \div 10000 >= Abs(v.p) /\ v.q # 10000 * Abs(v.p)

\* C14: the text of a finite number is a function of the number; it is in
\* scientific notation exactly when |v| > 10000 or 0 < |v| < 0.0001 and in
\* fixed notation with two decimals otherwise, so 0, 10000 and 0.0001 are in
\* fixed notation.
C14_FormatNotationByThreshold ==
    \A e \in NumerosFormateados :
        e.valor.k = "real" =>
            /\ e.texto = _format_number(e.valor)
            /\ e.texto.notation \in {"sci", "fixed"}
            /\ (e.texto.notation = "sci")
                    <=> (MayorQueDiezMil(e.valor) \/ MenorQueDiezmilesima(e.valor))
            /\ e.texto.notation = "sci" => e.texto.digits \in 10..99
            /\ e.texto.notation = "fixed" =>
                    LET r == Round(Real(Abs(e.valor.p), e.valor.q), 2) IN
                    e.texto.digits * r.q = 100 * r.p

C14_Witness ==
    \E e, g \in NumerosFormateados :
        /\ e.valor = Real(10000, 1) /\ e.texto = Formato("fixed", 1, 1000000, 0)
        /\ g.valor = Real(20000, 1) /\ g.texto = Formato("sci", 1, 20, 4)

\* C15: when the solving of "denominator = 0" fails, the rule of the
\* denominator contributes no restriction and the restrictions of the
\* logarithms and of the even roots are still in the returned list.
C15_RulesGuardedIndependently ==
    (Invoked("calcular_dominio") /\ Failed("dom_solve")) =>
        /\ \A i \in 1..Len(RestriccionesDerivadas) : RestriccionesDerivadas[i].op # "!="
        /\ \A L \in Find(FuncionAnalizada, "log") :
                MkRel(">", L.a[1], IntNum(0)) \in Range(RestriccionesDerivadas)
        /\ \A p \in Find(FuncionAnalizada, "pow") :
                p.a[2].q % 2 = 0 => MkRel(">=", p.a[1], IntNum(0)) \in Range(RestriccionesDerivadas)

\* the two operands of the restriction r at the point xv are both known real
OperandosReales(r, xv) ==
    is_real(N(Subs(r.lhs, "x", xv))) = "T" /\ is_real(N(Subs(r.rhs, "x", xv))) = "T"

\* the restriction r counts as violated at xv: its evaluation raises, its
\* operands are not both real, or the comparison is false
CuentaComoViolada(r, xv) ==
    \/ ~IsRelational(r)
    \/ ~OperandosReales(r, xv)
    \/ ~Compare(r.op, N(Subs(r.lhs, "x", xv)), N(Subs(r.rhs, "x", xv)))

\* C16: a restriction whose operands at x are not both known real is violated
\* with the "complex or undefined" detail, a restriction whose evaluation
\* raises is violated with the error as detail, and the report lists every
\* violated restriction, in the order of the restriction list.
C16_AllViolationsCollected ==
    Invoked("check_dominio_punto") =>
        LET R    == RestriccionesDerivadas
            viol == SelectSeq(R, LAMBDA r : CuentaComoViolada(r, XVal))
        IN  /\ HasSection("ADVERTENCIA") <=> viol # <<>>
            /\ HasSection("ADVERTENCIA") =>
                LET msgs == SectionBody("ADVERTENCIA")[1] IN
                /\ Len(msgs) = Len(viol)
                /\ \A i \in 1..Len(viol) :
                    /\ msgs[i].restr = viol[i]
                    /\ ~IsRelational(viol[i]) => msgs[i].err # None
                    /\ (IsRelational(viol[i]) /\ ~OperandosReales(viol[i], XVal)) =>
                            msgs[i].err = Some("Valor complejo o indefinido en la restriccion")

C16_Witness ==
    /\ Invoked("check_dominio_punto") /\ HasSection("ADVERTENCIA")
    /\ LET msgs == SectionBody("ADVERTENCIA")[1] IN
       /\ Len(msgs) = 2
       /\ \A i \in 1..2 : msgs[i].err = Some("Valor complejo o indefinido en la restriccion")

\* the typed function text with every ctg already written as cot
ConCot == Replace(Strip(entry_funcion), <<"c", "t", "g">>, <<"c", "o", "t">>)

\* C17: the normalisation replaces every ctg by cot (it does not rewrite the
\* tg inside it), so the function that is analysed for a text with ctg is the
\* one parsed from the same text written with cot.
C17_CtgBecomesCot ==
    (RunHappened /\ funcion_actual # None) =>
        /\ limpiar_expresion(Strip(entry_funcion)) = limpiar_expresion(ConCot)
        /\ funcion_actual = Some(simplify(sympify(limpiar_expresion(ConCot)).expr))

\* the intercepts of the report whose coordinate is a number
NumericasEnX == SelectSeq(SectionBody("INTERSECCIONES").inter_x.items, LAMBDA c : c.float # None)
NumericasEnY == SelectSeq(SectionBody("INTERSECCIONES").inter_y.items, LAMBDA c : c.float # None)

\* C18: the plot carries one marker for every numeric X-intercept and for the
\* numeric Y-intercept that calcular_intersecciones reports.
C18_PlotMarksEveryIntercept ==
    (Invoked("generar_grafico") /\ HasSection("INTERSECCIONES") /\ canvas_frame.fig # None) =>
        /\ canvas_frame.fig[1].inter_x = NumericasEnX
        /\ canvas_frame.fig[1].inter_y = NumericasEnY

\* funcion_actual is the function parsed from the text expresion_original
ParEnlazado ==
    IF funcion_actual = None
    THEN expresion_original = <<>>
    ELSE /\ expresion_original # <<>>
         /\ ~sympify(limpiar_expresion(expresion_original)).raised
         /\ funcion_actual = Some(simplify(sympify(limpiar_expresion(expresion_original)).expr))

\* a step of analizar_funcion on a function text that is empty or invalid
AnalizarTextoInvalido == TextoInvalido /\ \E F \in FaultSetsVentana : analizar_funcion(F)

\* C19: an analysis of an empty or invalid function text leaves
\* funcion_actual, expresion_original, the report and the plot as they were,
\* and at every moment funcion_actual is the function parsed from
\* expresion_original (the two are only updated together).
C19_InvalidAnalyzeKeepsState ==
    /\ []ParEnlazado
    /\ [][AnalizarTextoInvalido =>
            UNCHANGED <<funcion_actual, expresion_original, text_analisis, canvas_frame>>]_vars

C19_Witness ==
    /\ TextoInvalido
    /\ Shown("showerror") /\ calls \in {<<>>, <<"validar_funcion">>}
    /\ funcion_actual # None /\ ParEnlazado
    /\ HasSection("DOMINIO")
    /\ canvas_frame.kind = "figura"

====
